---- MODULE Spec2Model ----
(***************************************************************************)
(* Model of wmis_links: replace.py (load_links_csv, find_partial_id_match, *)
(* find_best_fuzzy_match, process_geojson, write_excel) and fuz.py         *)
(* (fuzzy_match).                                                          *)
(*                                                                         *)
(* Representation                                                          *)
(*   - a Python str is a sequence of one-character strings;                *)
(*   - a JSON value is a tagged record: [kind |-> "null"],                 *)
(*     [kind |-> "str", val |-> <<chars>>], [kind |-> "int", val |-> n],   *)
(*     [kind |-> "obj", val |-> record]; a dict is a record whose DOMAIN   *)
(*     is the set of keys present;                                         *)
(*   - a csv row tuple (name, id, link) is the sequence <<name, id, link>>;*)
(*     Python's None in place of a row is <<>> (both are falsy);           *)
(*   - row and feature indices are 0-based as in the code, so row idx is   *)
(*     all_rows[idx + 1]; Python's None in place of an index is NoneIdx;   *)
(*   - a float score is the integer number of ten-thousandths              *)
(*     (0.4 is 4000, 1.0 is 10000): every score is round(x, 4).            *)
(***************************************************************************)
EXTENDS Integers, Sequences, FiniteSets, TLC

VARIABLES
    csv_file,                \* links.csv: the data rows as read by csv.DictReader
    source_geojson,          \* source.geojson: the 'features' array of the document
    id_to_idx,               \* load_links_csv: row id -> index of its first row
    all_rows,                \* load_links_csv: the row tuples, file order
    features,                \* process_geojson: the in-memory features (mutated)
    found_by_id,
    found_by_id_partial,
    found_by_fuzzy,
    not_found_list,
    excel_by_id,
    excel_by_id_partial,
    excel_by_fuzzy,
    excel_not_found,
    used_csv_indices,
    matched_feature_indices,
    pc,                      \* position in main / process_geojson
    feat_idx,                \* loop variable of the running pass
    assign_log,              \* history: one entry per assignment, in order
    output_geojson,          \* the written 'River Gauges.geojson' features
    excel_rows,              \* the data rows written by write_excel
    result,                  \* the 4-tuple process_geojson returns
    arg_a, arg_b,            \* fuzzy_match called on its own: the two arguments
    score_ab, score_ba       \* ... and the two results

procvars == <<csv_file, source_geojson, id_to_idx, all_rows, features,
              found_by_id, found_by_id_partial, found_by_fuzzy, not_found_list,
              excel_by_id, excel_by_id_partial, excel_by_fuzzy, excel_not_found,
              used_csv_indices, matched_feature_indices, pc, feat_idx,
              assign_log, output_geojson, excel_rows, result>>
fuzvars == <<arg_a, arg_b, score_ab, score_ba>>
vars == <<procvars, fuzvars>>

----------------------------------------------------------------------------
(* Bounds of the model *)

MaxFeatures == 2
MaxRows == 2
MaxStrLen == 3

----------------------------------------------------------------------------
(* Python values *)

\* Python's None where the code holds an index or a score
PyNone == -1
NoneIdx == PyNone
NoneRow == <<>>
NoScore == PyNone

JNull == [kind |-> "null"]
JStr(s) == [kind |-> "str", val |-> s]
JInt(n) == [kind |-> "int", val |-> n]
JObj(d) == [kind |-> "obj", val |-> d]

IsNone(v) == v.kind = "null"

\* dict.get(key) / dict.get(key, default)
DictGet(d, key, default) == IF key \in DOMAIN d THEN d[key] ELSE default

\* d[key] = value on a dict
DictSet(d, key, value) ==
    [k \in (DOMAIN d) \cup {key} |-> IF k = key THEN value ELSE d[k]]

Digit(n) == CASE n = 0 -> "0" [] n = 1 -> "1" [] n = 2 -> "2" [] n = 3 -> "3"
              [] n = 4 -> "4" [] n = 5 -> "5" [] n = 6 -> "6" [] n = 7 -> "7"
              [] n = 8 -> "8" [] n = 9 -> "9"

RECURSIVE Decimal(_)
Decimal(n) == IF n < 10 THEN <<Digit(n)>>
              ELSE Decimal(n \div 10) \o <<Digit(n % 10)>>

\* str(v) for the JSON values modelled: a str is itself, an int its decimal form
PyStr(v) == CASE v.kind = "str" -> v.val
              [] v.kind = "int" -> Decimal(v.val)
              [] v.kind = "null" -> <<"N", "o", "n", "e">>

\* truth value of a JSON value: None, '' and 0 are false
Truthy(v) == CASE v.kind = "null" -> FALSE
               [] v.kind = "str" -> Len(v.val) > 0
               [] v.kind = "int" -> v.val # 0
               [] v.kind = "obj" -> DOMAIN v.val # {}

IsSpace(c) == c = " "

RECURSIVE LStrip(_)
LStrip(s) == IF Len(s) > 0 /\ IsSpace(s[1]) THEN LStrip(Tail(s)) ELSE s

RECURSIVE RStrip(_)
RStrip(s) == IF Len(s) > 0 /\ IsSpace(s[Len(s)])
             THEN RStrip(SubSeq(s, 1, Len(s) - 1)) ELSE s

\* str.strip()
Strip(s) == RStrip(LStrip(s))

LowerChar(c) == CASE c = "A" -> "a" [] c = "B" -> "b" [] c = "C" -> "c"
                  [] c = "D" -> "d" [] c = "E" -> "e" [] c = "L" -> "l"
                  [] c = "N" -> "n" [] c = "X" -> "x" [] OTHER -> c

\* str.lower()
Lower(s) == [i \in 1..Len(s) |-> LowerChar(s[i])]

\* needle in hay, for two str
IsSubstring(needle, hay) ==
    \E k \in 0..(Len(hay) - Len(needle)) :
        SubSeq(hay, k + 1, k + Len(needle)) = needle

----------------------------------------------------------------------------
(* fuz.py *)

Min2(x, y) == IF x <= y THEN x ELSE y
Max2(x, y) == IF x >= y THEN x ELSE y

\* dp[len_a][len_b] of the distance matrix of fuz.py
Levenshtein(a, b) ==
    LET dp[i \in 0..Len(a), j \in 0..Len(b)] ==
            IF j = 0 THEN i
            ELSE IF i = 0 THEN j
            ELSE IF a[i] = b[j] THEN dp[i - 1, j - 1]
            ELSE 1 + Min2(dp[i - 1, j], Min2(dp[i, j - 1], dp[i - 1, j - 1]))
    IN dp[Len(a), Len(b)]

\* round(1.0 - distance / max_len, 4) in ten-thousandths; round() rounds a
\* tie to the even neighbour. Exact for max_len < 160 (compared with the code
\* on every distance); at 160 the float 1.0 - d/160 is no longer the tie the
\* rational is, and the code rounds it away from the even neighbour.
RoundSimilarity(distance, max_len) ==
    LET num == 10000 * (max_len - distance)
        q == num \div max_len
        r == num % max_len
    IN IF 2 * r < max_len THEN q
       ELSE IF 2 * r > max_len THEN q + 1
       ELSE IF q % 2 = 0 THEN q ELSE q + 1

\* mutant: the distance is divided by len(a), not by the longer length
fuzzy_match_len_a(a, b) ==
    IF a = b THEN 10000
    ELSE IF Len(a) = 0 \/ Len(b) = 0 THEN 0
    ELSE LET la == Lower(a)
             lb == Lower(b)
         IN IF la = lb THEN 10000
            ELSE RoundSimilarity(Min2(Levenshtein(la, lb), Len(la)), Len(la))

fuzzy_match(a, b) ==
    IF a = b THEN 10000
    ELSE IF Len(a) = 0 \/ Len(b) = 0 THEN 0
    ELSE LET la == Lower(a)
             lb == Lower(b)
         IN IF la = lb THEN 10000
            ELSE RoundSimilarity(Levenshtein(la, lb), Max2(Len(la), Len(lb)))

----------------------------------------------------------------------------
(* replace.py: load_links_csv *)

\* the tuple built from one DictReader row (a dict of three str)
row_tuple(row) ==
    <<Strip(row.name), Strip(row.id),
      IF Len(row.link) > 0 THEN Strip(row.link) ELSE <<>>>>

\* all_rows of load_links_csv
load_all_rows(file) == [i \in 1..Len(file) |-> row_tuple(file[i])]

\* id_to_idx of load_links_csv: the first row (0-based) carrying each id
load_id_to_idx(file) ==
    LET rows == load_all_rows(file)
        ids == {rows[i][2] : i \in 1..Len(rows)}
    IN [k \in ids |->
          (CHOOSE i \in 1..Len(rows) :
              /\ rows[i][2] = k
              /\ \A j \in 1..(i - 1) : rows[j][2] # k) - 1]

----------------------------------------------------------------------------
(* replace.py: find_partial_id_match, find_best_fuzzy_match *)

\* the loop of find_partial_id_match from row idx on
\* mutant: needle and haystack swapped (prop_id in csv_id)
RECURSIVE partial_scan_swapped(_, _, _, _)
partial_scan_swapped(prop_id, rows, used, idx) ==
    IF idx >= Len(rows) THEN [idx |-> NoneIdx, row |-> NoneRow]
    ELSE IF idx \in used THEN partial_scan_swapped(prop_id, rows, used, idx + 1)
    ELSE IF IsSubstring(prop_id, rows[idx + 1][2])
         THEN [idx |-> idx, row |-> rows[idx + 1]]
    ELSE partial_scan_swapped(prop_id, rows, used, idx + 1)

RECURSIVE partial_scan(_, _, _, _)
partial_scan(prop_id, rows, used, idx) ==
    IF idx >= Len(rows) THEN [idx |-> NoneIdx, row |-> NoneRow]
    ELSE IF idx \in used THEN partial_scan(prop_id, rows, used, idx + 1)
    ELSE IF IsSubstring(rows[idx + 1][2], prop_id)
         THEN [idx |-> idx, row |-> rows[idx + 1]]
    ELSE partial_scan(prop_id, rows, used, idx + 1)

\* mutant: find_partial_id_match with the swapped test
find_partial_id_match_swapped(prop_id, rows, used) ==
    partial_scan_swapped(prop_id, rows, used, 0)

find_partial_id_match(prop_id, rows, used) == partial_scan(prop_id, rows, used, 0)

\* mutant: an equal score replaces the current best too
better_score_or_equal(score, best_score) == score >= best_score

\* the comparison that replaces the current best in find_best_fuzzy_match
better_score(score, best_score) == score > best_score

\* the loop of find_best_fuzzy_match from row idx on; best is the triple
\* (best_idx, best_row, best_score)
RECURSIVE fuzzy_scan(_, _, _, _, _)
fuzzy_scan(prop_name, rows, used, idx, best) ==
    IF idx >= Len(rows) THEN best
    ELSE IF idx \in used THEN fuzzy_scan(prop_name, rows, used, idx + 1, best)
    ELSE LET score == fuzzy_match(prop_name, rows[idx + 1][1])
         IN IF better_score(score, best.score)
            THEN fuzzy_scan(prop_name, rows, used, idx + 1,
                            [idx |-> idx, row |-> rows[idx + 1], score |-> score])
            ELSE fuzzy_scan(prop_name, rows, used, idx + 1, best)

\* min_score=0.4, the default and the value process_geojson passes
MinScore == 4000

\* mutant: the threshold itself is rejected
accepts_strictly(best_score, min_score) == best_score > min_score

\* the acceptance test on the best score
accepts(best_score, min_score) == best_score >= min_score

find_best_fuzzy_match(prop_name, rows, used, min_score) ==
    LET best == fuzzy_scan(prop_name, rows, used, 0,
                           [idx |-> NoneIdx, row |-> NoneRow, score |-> 0])
    IN IF accepts(best.score, min_score) THEN best
       ELSE [idx |-> NoneIdx, row |-> NoneRow, score |-> 0]

----------------------------------------------------------------------------
(* replace.py: write_excel *)

\* the characters of the model's inputs, in code point order
CodePoints == <<" ", "0", "1", "2", "3", "4", "5", "6", "7", "8", "9",
                "A", "B", "C", "D", "E", "L", "N", "X",
                "a", "b", "c", "d", "e", "l", "n", "o", "x">>

CharOrd(c) == CHOOSE i \in 1..Len(CodePoints) : CodePoints[i] = c

\* a < b for two str
RECURSIVE StrLess(_, _)
StrLess(a, b) ==
    IF Len(b) = 0 THEN FALSE
    ELSE IF Len(a) = 0 THEN TRUE
    ELSE IF a[1] = b[1] THEN StrLess(Tail(a), Tail(b))
    ELSE CharOrd(a[1]) < CharOrd(b[1])

\* key(x) < key(y) for key = (0 if x[2] == 'Yes' else 1, x[0].lower())
excel_key_less(x, y) ==
    LET kx == IF x[3] = "Yes" THEN 0 ELSE 1
        ky == IF y[3] = "Yes" THEN 0 ELSE 1
    IN \/ kx < ky
       \/ kx = ky /\ StrLess(Lower(x[1]), Lower(y[1]))

\* x inserted into the sorted list after every element not greater than it
RECURSIVE stable_insert(_, _)
stable_insert(sorted, x) ==
    IF Len(sorted) = 0 THEN <<x>>
    ELSE IF excel_key_less(x, sorted[Len(sorted)])
         THEN stable_insert(SubSeq(sorted, 1, Len(sorted) - 1), x)
                  \o <<sorted[Len(sorted)]>>
         ELSE sorted \o <<x>>

\* list.sort(key=...): stable
RECURSIVE stable_sort(_)
stable_sort(rows) ==
    IF Len(rows) = 0 THEN <<>>
    ELSE stable_insert(stable_sort(SubSeq(rows, 1, Len(rows) - 1)), rows[Len(rows)])

\* the data rows write_excel writes, top to bottom
write_excel(by_id, by_id_partial, by_fuzzy, not_found) ==
    stable_sort(
        [i \in 1..Len(by_id) |-> <<by_id[i][1], by_id[i][2], "Yes">>]
        \o [i \in 1..Len(by_id_partial) |->
                <<by_id_partial[i][1], by_id_partial[i][2], "Yes">>]
        \o [i \in 1..Len(by_fuzzy) |-> <<by_fuzzy[i][1], by_fuzzy[i][2], "No">>]
        \o [i \in 1..Len(not_found) |-> <<not_found[i], <<>>, "No">>])

----------------------------------------------------------------------------
(* Inputs *)

EmptyDict == [k \in {} |-> JNull]

FeaturePool == <<
    \* id with surrounding blanks, no source yet
    [geometry |-> JNull,
     properties |-> JObj([id |-> JStr(<<" ", "1">>),
                          name |-> JStr(<<"a", "b", "c", "d", "e">>),
                          station |-> JInt(7)])],
    \* numeric id, source already set
    [geometry |-> JNull,
     properties |-> JObj([id |-> JInt(12),
                          name |-> JStr(<<"a", "b", "x", "x", "x">>),
                          source |-> JStr(<<"o", "l", "d">>)])],
    \* no id key, a name
    [geometry |-> JNull,
     properties |-> JObj([name |-> JStr(<<"a", "b", "c", "d", "e">>),
                          source |-> JStr(<<"o", "l", "d">>)])],
    \* id null, no name key
    [geometry |-> JNull,
     properties |-> JObj([id |-> JNull, station |-> JInt(7)])],
    \* properties null
    [geometry |-> JNull, properties |-> JNull],
    \* no properties key
    [geometry |-> JNull],
    \* an id, empty name
    [geometry |-> JNull,
     properties |-> JObj([id |-> JStr(<<"9">>), name |-> JStr(<<>>),
                          source |-> JStr(<<"o", "l", "d">>)])]
>>

RowPool == <<
    [name |-> <<"a", "b", "c", "d", "e">>, id |-> <<"1">>, link |-> <<"L", "1">>],
    [name |-> <<"a", "b", "x", "x", "x">>, id |-> <<"1", "2">>, link |-> <<"L", "2">>],
    [name |-> <<"A", "B", "C", "D", "E", " ">>, id |-> <<" ", "1">>,
     link |-> <<"L", "3">>],
    [name |-> <<>>, id |-> <<>>, link |-> <<>>],
    [name |-> <<"A", "X", "X", "X", "X">>, id |-> <<"2">>, link |-> <<" ", "L", "5">>]
>>

SeqsUpTo(S, n) == UNION {[1..k -> S] : k \in 0..n}

FuzAlphabet == {"a", "b", "A"}

----------------------------------------------------------------------------
(* State machine: main, process_geojson *)

Init ==
    /\ \E pick \in SeqsUpTo(1..Len(RowPool), MaxRows) :
           csv_file = [i \in 1..Len(pick) |-> RowPool[pick[i]]]
    /\ \E pick \in SeqsUpTo(1..Len(FeaturePool), MaxFeatures) :
           source_geojson = [i \in 1..Len(pick) |-> FeaturePool[pick[i]]]
    /\ id_to_idx = EmptyDict
    /\ all_rows = <<>>
    /\ features = <<>>
    /\ found_by_id = <<>>
    /\ found_by_id_partial = <<>>
    /\ found_by_fuzzy = <<>>
    /\ not_found_list = <<>>
    /\ excel_by_id = <<>>
    /\ excel_by_id_partial = <<>>
    /\ excel_by_fuzzy = <<>>
    /\ excel_not_found = <<>>
    /\ used_csv_indices = {}
    /\ matched_feature_indices = {}
    /\ pc = "load_links_csv"
    /\ feat_idx = 0
    /\ assign_log = <<>>
    /\ output_geojson = <<>>
    /\ excel_rows = <<>>
    /\ result = <<>>
    /\ arg_a = <<>>
    /\ arg_b = <<>>
    /\ score_ab = NoScore
    /\ score_ba = NoScore

\* main: id_to_idx, all_rows = load_links_csv(csv_path)
LoadLinksCsv ==
    /\ pc = "load_links_csv"
    /\ id_to_idx' = load_id_to_idx(csv_file)
    /\ all_rows' = load_all_rows(csv_file)
    /\ pc' = "open_geojson"
    /\ UNCHANGED <<csv_file, source_geojson, features, found_by_id,
                   found_by_id_partial, found_by_fuzzy, not_found_list,
                   excel_by_id, excel_by_id_partial, excel_by_fuzzy,
                   excel_not_found, used_csv_indices, matched_feature_indices,
                   feat_idx, assign_log, output_geojson, excel_rows, result>>
    /\ UNCHANGED fuzvars

\* process_geojson up to the first loop: json.load and the empty accumulators
OpenGeojson ==
    /\ pc = "open_geojson"
    /\ features' = source_geojson
    /\ found_by_id' = <<>>
    /\ found_by_id_partial' = <<>>
    /\ found_by_fuzzy' = <<>>
    /\ not_found_list' = <<>>
    /\ excel_by_id' = <<>>
    /\ excel_by_id_partial' = <<>>
    /\ excel_by_fuzzy' = <<>>
    /\ excel_not_found' = <<>>
    /\ used_csv_indices' = {}
    /\ matched_feature_indices' = {}
    /\ feat_idx' = 0
    /\ pc' = "tier1"
    /\ UNCHANGED <<csv_file, source_geojson, id_to_idx, all_rows, assign_log,
                   output_geojson, excel_rows, result>>
    /\ UNCHANGED fuzvars

\* feature.get('properties', {})
properties_of(feature) == DictGet(feature, "properties", JObj(EmptyDict))

\* the two 'continue' tests at the head of a loop body
no_properties(feature) == IsNone(properties_of(feature))
no_prop_id(feature) == IsNone(DictGet(properties_of(feature).val, "id", JNull))

\* str(prop_id).strip()
prop_id_trimmed(feature) ==
    Strip(PyStr(DictGet(properties_of(feature).val, "id", JNull)))

\* str(properties.get('name')) if properties.get('name') else ''
prop_name_str(feature) ==
    LET name == DictGet(properties_of(feature).val, "name", JNull)
    IN IF Truthy(name) THEN PyStr(name) ELSE <<>>

\* mutant: the properties are replaced by a dict holding the source alone
set_source_alone(feats, idx, link) ==
    [feats EXCEPT ![idx + 1] =
        DictSet(@, "properties", JObj(DictSet(EmptyDict, "source", JStr(link))))]

\* properties['source'] = link, on feature feat_idx of the list
set_source(feats, idx, link) ==
    [feats EXCEPT ![idx + 1] =
        DictSet(@, "properties",
                JObj(DictSet(properties_of(@).val, "source", JStr(link))))]

iovars == <<csv_file, source_geojson, id_to_idx, all_rows, output_geojson,
            excel_rows, result>>

\* the four statements every tier runs on a match: the source is written, the
\* row and the feature are marked (assign_log records the pair)
Assign(tier, csv_idx, csv_row, score) ==
    /\ features' = set_source(features, feat_idx, csv_row[3])
    /\ used_csv_indices' = used_csv_indices \cup {csv_idx}
    /\ matched_feature_indices' = matched_feature_indices \cup {feat_idx}
    /\ assign_log' = Append(assign_log,
           [feat |-> feat_idx, row |-> csv_idx, tier |-> tier, score |-> score])

NoAssign ==
    UNCHANGED <<features, used_csv_indices, matched_feature_indices, assign_log>>

\* first loop: whether the body is left by one of its two 'continue'
tier1_skips(feature) == no_properties(feature) \/ no_prop_id(feature)

\* mutant: the test on used_csv_indices is left out
tier1_lookup_reuses(prop_id, idx_of, used) ==
    IF prop_id \in DOMAIN idx_of THEN idx_of[prop_id] ELSE NoneIdx

\* mutant: index 0 is taken to be no index (if csv_idx:)
tier1_lookup_falsy_zero(prop_id, idx_of, used) ==
    IF prop_id \in DOMAIN idx_of /\ idx_of[prop_id] \notin used
       /\ idx_of[prop_id] # 0
    THEN idx_of[prop_id] ELSE NoneIdx

\* first loop: the row index the exact lookup assigns, NoneIdx when it assigns none
tier1_lookup(prop_id, idx_of, used) ==
    IF prop_id \in DOMAIN idx_of /\ idx_of[prop_id] \notin used
    THEN idx_of[prop_id] ELSE NoneIdx

\* one iteration of the first loop (exact id)
Tier1Step ==
    /\ pc = "tier1"
    /\ feat_idx < Len(features)
    /\ LET feature == features[feat_idx + 1]
       IN IF tier1_skips(feature)
          THEN NoAssign /\ UNCHANGED <<found_by_id, excel_by_id>>
          ELSE LET csv_idx == tier1_lookup(prop_id_trimmed(feature), id_to_idx,
                                           used_csv_indices)
               IN IF csv_idx # NoneIdx
                  THEN /\ Assign(1, csv_idx, all_rows[csv_idx + 1], NoScore)
                       /\ found_by_id' = Append(found_by_id,
                              <<prop_name_str(feature), prop_id_trimmed(feature)>>)
                       /\ excel_by_id' = Append(excel_by_id,
                              <<prop_name_str(feature), all_rows[csv_idx + 1][1]>>)
                  ELSE NoAssign /\ UNCHANGED <<found_by_id, excel_by_id>>
    /\ feat_idx' = feat_idx + 1
    /\ UNCHANGED <<pc, found_by_id_partial, found_by_fuzzy, not_found_list,
                   excel_by_id_partial, excel_by_fuzzy, excel_not_found>>
    /\ UNCHANGED iovars
    /\ UNCHANGED fuzvars

\* mutant: the first loop is left after its first iteration (a stray break)
Tier1DoneEarly ==
    /\ pc = "tier1"
    /\ feat_idx = Len(features) \/ feat_idx = 1
    /\ pc' = "tier2"
    /\ feat_idx' = 0
    /\ NoAssign
    /\ UNCHANGED <<found_by_id, found_by_id_partial, found_by_fuzzy,
                   not_found_list, excel_by_id, excel_by_id_partial,
                   excel_by_fuzzy, excel_not_found>>
    /\ UNCHANGED iovars
    /\ UNCHANGED fuzvars

\* the first loop ends, the second starts
Tier1Done ==
    /\ pc = "tier1"
    /\ feat_idx = Len(features)
    /\ pc' = "tier2"
    /\ feat_idx' = 0
    /\ NoAssign
    /\ UNCHANGED <<found_by_id, found_by_id_partial, found_by_fuzzy,
                   not_found_list, excel_by_id, excel_by_id_partial,
                   excel_by_fuzzy, excel_not_found>>
    /\ UNCHANGED iovars
    /\ UNCHANGED fuzvars

\* mutant: the second loop does not skip the features already matched
tier2_skips_unmatched_only(idx, feature, matched) ==
    no_properties(feature) \/ no_prop_id(feature)

\* second loop: whether the body is left by one of its three 'continue'
tier2_skips(idx, feature, matched) ==
    idx \in matched \/ no_properties(feature) \/ no_prop_id(feature)

\* if csv_row: on the pair find_partial_id_match returned
partial_found(m) == Len(m.row) > 0

\* one iteration of the second loop (partial id)
Tier2Step ==
    /\ pc = "tier2"
    /\ feat_idx < Len(features)
    /\ LET feature == features[feat_idx + 1]
       IN IF tier2_skips(feat_idx, feature, matched_feature_indices)
          THEN NoAssign /\ UNCHANGED <<found_by_id_partial, excel_by_id_partial>>
          ELSE LET m == find_partial_id_match(prop_id_trimmed(feature), all_rows,
                                              used_csv_indices)
               IN IF partial_found(m)
                  THEN /\ Assign(2, m.idx, m.row, NoScore)
                       /\ found_by_id_partial' = Append(found_by_id_partial,
                              <<prop_name_str(feature), prop_id_trimmed(feature),
                                m.row[1], m.row[2]>>)
                       /\ excel_by_id_partial' = Append(excel_by_id_partial,
                              <<prop_name_str(feature), m.row[1]>>)
                  ELSE NoAssign
                       /\ UNCHANGED <<found_by_id_partial, excel_by_id_partial>>
    /\ feat_idx' = feat_idx + 1
    /\ UNCHANGED <<pc, found_by_id, found_by_fuzzy, not_found_list,
                   excel_by_id, excel_by_fuzzy, excel_not_found>>
    /\ UNCHANGED iovars
    /\ UNCHANGED fuzvars

\* the second loop ends, the third starts
Tier2Done ==
    /\ pc = "tier2"
    /\ feat_idx = Len(features)
    /\ pc' = "tier3"
    /\ feat_idx' = 0
    /\ NoAssign
    /\ UNCHANGED <<found_by_id, found_by_id_partial, found_by_fuzzy,
                   not_found_list, excel_by_id, excel_by_id_partial,
                   excel_by_fuzzy, excel_not_found>>
    /\ UNCHANGED iovars
    /\ UNCHANGED fuzvars

\* third loop: whether the body is left by one of its three 'continue'
tier3_skips(idx, feature, matched) ==
    idx \in matched \/ no_properties(feature) \/ no_prop_id(feature)

\* if best_row: on the triple find_best_fuzzy_match returned
fuzzy_found(m) == Len(m.row) > 0

\* one iteration of the third loop (fuzzy name)
Tier3Step ==
    /\ pc = "tier3"
    /\ feat_idx < Len(features)
    /\ LET feature == features[feat_idx + 1]
       IN IF tier3_skips(feat_idx, feature, matched_feature_indices)
          THEN NoAssign
               /\ UNCHANGED <<found_by_fuzzy, excel_by_fuzzy, not_found_list,
                              excel_not_found>>
          ELSE LET m == find_best_fuzzy_match(prop_name_str(feature), all_rows,
                                              used_csv_indices, MinScore)
               IN IF fuzzy_found(m)
                  THEN /\ Assign(3, m.idx, m.row, m.score)
                       /\ found_by_fuzzy' = Append(found_by_fuzzy,
                              <<prop_name_str(feature), prop_id_trimmed(feature),
                                m.row[1], m.row[2], m.score>>)
                       /\ excel_by_fuzzy' = Append(excel_by_fuzzy,
                              <<prop_name_str(feature), m.row[1]>>)
                       /\ UNCHANGED <<not_found_list, excel_not_found>>
                  ELSE /\ NoAssign
                       /\ not_found_list' = Append(not_found_list,
                              <<prop_name_str(feature), prop_id_trimmed(feature)>>)
                       /\ excel_not_found' = Append(excel_not_found,
                              prop_name_str(feature))
                       /\ UNCHANGED <<found_by_fuzzy, excel_by_fuzzy>>
    /\ feat_idx' = feat_idx + 1
    /\ UNCHANGED <<pc, found_by_id, found_by_id_partial, excel_by_id,
                   excel_by_id_partial>>
    /\ UNCHANGED iovars
    /\ UNCHANGED fuzvars

\* the third loop ends
Tier3Done ==
    /\ pc = "tier3"
    /\ feat_idx = Len(features)
    /\ pc' = "write"
    /\ feat_idx' = 0
    /\ NoAssign
    /\ UNCHANGED <<found_by_id, found_by_id_partial, found_by_fuzzy,
                   not_found_list, excel_by_id, excel_by_id_partial,
                   excel_by_fuzzy, excel_not_found>>
    /\ UNCHANGED iovars
    /\ UNCHANGED fuzvars

\* json.dump, the log (the four lists and their lengths, as they stand),
\* write_excel and the returned counts
WriteOutputs ==
    /\ pc = "write"
    /\ output_geojson' = features
    /\ excel_rows' = write_excel(excel_by_id, excel_by_id_partial, excel_by_fuzzy,
                                 excel_not_found)
    /\ result' = <<Len(found_by_id), Len(found_by_id_partial),
                   Len(found_by_fuzzy), Len(not_found_list)>>
    /\ pc' = "done"
    /\ NoAssign
    /\ UNCHANGED <<csv_file, source_geojson, id_to_idx, all_rows, feat_idx,
                   found_by_id, found_by_id_partial, found_by_fuzzy,
                   not_found_list, excel_by_id, excel_by_id_partial,
                   excel_by_fuzzy, excel_not_found>>
    /\ UNCHANGED fuzvars

Next ==
    \/ LoadLinksCsv
    \/ OpenGeojson
    \/ Tier1Step
    \/ Tier1Done
    \/ Tier2Step
    \/ Tier2Done
    \/ Tier3Step
    \/ Tier3Done
    \/ WriteOutputs

Spec == Init /\ [][Next]_vars

----------------------------------------------------------------------------
(* fuzzy_match on its own: both argument orders on every pair of strings *)

Strings == SeqsUpTo(FuzAlphabet, MaxStrLen)

FuzInit ==
    /\ arg_a \in Strings
    /\ arg_b \in Strings
    /\ score_ab = NoScore
    /\ score_ba = NoScore
    /\ csv_file = <<>>
    /\ source_geojson = <<>>
    /\ id_to_idx = EmptyDict
    /\ all_rows = <<>>
    /\ features = <<>>
    /\ found_by_id = <<>>
    /\ found_by_id_partial = <<>>
    /\ found_by_fuzzy = <<>>
    /\ not_found_list = <<>>
    /\ excel_by_id = <<>>
    /\ excel_by_id_partial = <<>>
    /\ excel_by_fuzzy = <<>>
    /\ excel_not_found = <<>>
    /\ used_csv_indices = {}
    /\ matched_feature_indices = {}
    /\ pc = "fuzzy_match"
    /\ feat_idx = 0
    /\ assign_log = <<>>
    /\ output_geojson = <<>>
    /\ excel_rows = <<>>
    /\ result = <<>>

\* fuzzy_match(a, b)
CallAB ==
    /\ pc = "fuzzy_match"
    /\ score_ab = NoScore
    /\ score_ab' = fuzzy_match(arg_a, arg_b)
    /\ UNCHANGED <<arg_a, arg_b, score_ba>>
    /\ UNCHANGED procvars

\* fuzzy_match(b, a)
CallBA ==
    /\ pc = "fuzzy_match"
    /\ score_ba = NoScore
    /\ score_ba' = fuzzy_match(arg_b, arg_a)
    /\ UNCHANGED <<arg_a, arg_b, score_ab>>
    /\ UNCHANGED procvars

FuzNext == CallAB \/ CallBA

FuzSpec == FuzInit /\ [][FuzNext]_vars

----------------------------------------------------------------------------
(* Vocabulary of the properties *)

FeatIdx == 0..(Len(features) - 1)
RowIdx == 0..(Len(all_rows) - 1)
LogIdx == 1..Len(assign_log)

\* the feature carries a properties object
HasProps(f) == "properties" \in DOMAIN f /\ f.properties.kind = "obj"

\* ... and that object has no id (missing or null)
LacksId(f) == HasProps(f) /\ no_prop_id(f)

\* ... and that object has an id
HasId(f) == HasProps(f) /\ ~no_prop_id(f)

AssignedBy(i, tier) == \E e \in LogIdx : assign_log[e].feat = i /\ assign_log[e].tier = tier
Assigned(i) == \E e \in LogIdx : assign_log[e].feat = i
RowOf(i) == assign_log[CHOOSE e \in LogIdx : assign_log[e].feat = i].row

CountTier(tier) == Cardinality({e \in LogIdx : assign_log[e].tier = tier})

\* the source of a feature, <<"absent">> when it has none
SourceOf(f) ==
    IF HasProps(f) /\ "source" \in DOMAIN f.properties.val
    THEN f.properties.val.source ELSE JStr(<<"absent">>)

\* a feature without the source key of its properties
WithoutSource(f) ==
    IF HasProps(f)
    THEN [f EXCEPT !.properties =
            JObj([k \in (DOMAIN f.properties.val) \ {"source"} |-> f.properties.val[k]])]
    ELSE f

SetMax(S) == CHOOSE x \in S : \A y \in S : y <= x

\* the highest score of name against the rows outside used, 0 when none is left
BestUnused(name, used) ==
    SetMax({0} \cup {fuzzy_match(name, all_rows[j + 1][1]) : j \in RowIdx \ used})

\* the unused rows whose id is a substring of prop_id
PartialCandidates(prop_id, used) ==
    {j \in RowIdx \ used : IsSubstring(all_rows[j + 1][2], prop_id)}

\* the running iteration reaches the tier's matcher (none of the 'continue')
Tier2Acts ==
    /\ pc = "tier2" /\ feat_idx < Len(features)
    /\ ~tier2_skips(feat_idx, features[feat_idx + 1], matched_feature_indices)
Tier3Acts ==
    /\ pc = "tier3" /\ feat_idx < Len(features)
    /\ ~tier3_skips(feat_idx, features[feat_idx + 1], matched_feature_indices)

Started == pc \in {"tier1", "tier2", "tier3", "write", "done"}

----------------------------------------------------------------------------
(* Properties *)

\* C1: no row index is assigned to more than one feature: the assignments made
\* by the three passes carry pairwise distinct row indices, the used set is
\* exactly those rows, and the three found lists hold one record per assignment.
UniqueRowAssignment ==
    /\ \A d, e \in LogIdx : d # e => assign_log[d].row # assign_log[e].row
    /\ used_csv_indices = {assign_log[e].row : e \in LogIdx}
    /\ Len(found_by_id) = CountTier(1)
    /\ Len(found_by_id_partial) = CountTier(2)
    /\ Len(found_by_fuzzy) = CountTier(3)

\* C1 witness: a finished run on a table with a duplicate id in which two
\* features with the same id were both assigned, in different tiers
UniqueRowAssignmentWitness ==
    /\ pc = "done"
    /\ Len(all_rows) = 2 /\ all_rows[1][2] = all_rows[2][2]
    /\ Len(features) = 2
    /\ HasId(features[1]) /\ HasId(features[2])
    /\ prop_id_trimmed(features[1]) = prop_id_trimmed(features[2])
    /\ AssignedBy(0, 1) /\ AssignedBy(1, 2)

\* the first feature, in list order, that carries its trimmed id
FirstWithId(i) ==
    /\ HasId(features[i + 1])
    /\ \A j \in 0..(i - 1) :
           HasId(features[j + 1]) =>
               prop_id_trimmed(features[j + 1]) # prop_id_trimmed(features[i + 1])

\* feature i is resolved by the exact tier alone: never by tiers 2 and 3, and
\* once the first pass is over it holds the first row of its id
ResolvedExactOnly(i) ==
    /\ ~AssignedBy(i, 2) /\ ~AssignedBy(i, 3)
    /\ pc \in {"tier2", "tier3", "write", "done"} =>
           /\ AssignedBy(i, 1)
           /\ RowOf(i) = id_to_idx[prop_id_trimmed(features[i + 1])]

\* C2 as stated: every feature whose trimmed id is a key of id_to_idx is
\* resolved by the exact tier alone, other features with the same id or not.
CascadePriorityEvery ==
    \A i \in FeatIdx :
        (HasId(features[i + 1])
         /\ prop_id_trimmed(features[i + 1]) \in DOMAIN id_to_idx)
        => ResolvedExactOnly(i)

\* C2 amended: the first feature in list order carrying a trimmed id that is a
\* key of id_to_idx is resolved by the exact tier alone (a later feature with
\* the same id finds the row used and goes on to the partial and fuzzy tiers).
CascadePriorityFirst ==
    \A i \in FeatIdx :
        (FirstWithId(i)
         /\ prop_id_trimmed(features[i + 1]) \in DOMAIN id_to_idx)
        => ResolvedExactOnly(i)

\* C2 witness: a feature whose id is a row id and contains another row's id,
\* matched exactly, while a second feature with the same id took the other row
\* in the partial tier
CascadePriorityWitness ==
    /\ pc = "done"
    /\ Len(features) = 2 /\ Len(all_rows) = 2
    /\ HasId(features[1]) /\ HasId(features[2])
    /\ prop_id_trimmed(features[1]) = prop_id_trimmed(features[2])
    /\ all_rows[1][2] # all_rows[2][2]
    /\ IsSubstring(all_rows[1][2], prop_id_trimmed(features[1]))
    /\ all_rows[2][2] = prop_id_trimmed(features[1])
    /\ AssignedBy(0, 1) /\ RowOf(0) = 1
    /\ AssignedBy(1, 2) /\ RowOf(1) = 0

\* C3: a feature without an id is left alone by tiers 1 and 2 and is matched by
\* tier 3 when it has a name and an unused row scores at least 0.4 against it:
\* at the end of the run no such feature is unmatched while such a row is unused.
NoIdStillFuzzyMatched ==
    \A i \in FeatIdx :
        LacksId(features[i + 1]) =>
            /\ ~AssignedBy(i, 1) /\ ~AssignedBy(i, 2)
            /\ (pc = "done"
                /\ Len(prop_name_str(features[i + 1])) > 0
                /\ BestUnused(prop_name_str(features[i + 1]), used_csv_indices)
                       >= MinScore)
               => /\ AssignedBy(i, 3)
                  /\ SourceOf(features[i + 1]) = JStr(all_rows[RowOf(i) + 1][3])

\* C4: the four counts returned add up to the number of features with a
\* properties object, and the summary has one data row for each of them.
EveryFeatureCounted ==
    pc = "done" =>
        LET n == Cardinality({i \in FeatIdx : HasProps(features[i + 1])})
        IN /\ result[1] + result[2] + result[3] + result[4] = n
           /\ Len(excel_rows) = n

\* C5: a feature with no id and an empty or missing name gets no source from
\* any tier and is in the unmatched list: the list holds an entry with an
\* empty name for each such feature.
NoIdNoNameUnmatched ==
    LET nameless == {i \in FeatIdx : /\ LacksId(features[i + 1])
                                     /\ Len(prop_name_str(features[i + 1])) = 0}
    IN /\ \A i \in nameless :
              /\ ~Assigned(i)
              /\ Started => features[i + 1] = source_geojson[i + 1]
       /\ pc = "done" =>
              Cardinality({k \in 1..Len(not_found_list) :
                               Len(not_found_list[k][1]) = 0})
                  >= Cardinality(nameless)

\* C6: when the fuzzy tier examines a feature, a best score of 0.4 or more over
\* the unused rows (0.4 itself included) is accepted, one row is used and the
\* score recorded; a best score below 0.4 uses no row, leaves the features
\* alone and reports the feature unmatched.
ThresholdBoundary ==
    [][Tier3Acts =>
        LET feature == features[feat_idx + 1]
            name == prop_name_str(feature)
            best == BestUnused(name, used_csv_indices)
        IN /\ best >= 4000 =>
                 /\ Len(found_by_fuzzy') = Len(found_by_fuzzy) + 1
                 /\ found_by_fuzzy'[Len(found_by_fuzzy')][5] = best
                 /\ Cardinality(used_csv_indices') = Cardinality(used_csv_indices) + 1
                 /\ feat_idx \in matched_feature_indices'
                 /\ not_found_list' = not_found_list
           /\ best < 4000 =>
                 /\ used_csv_indices' = used_csv_indices
                 /\ matched_feature_indices' = matched_feature_indices
                 /\ features' = features
                 /\ found_by_fuzzy' = found_by_fuzzy
                 /\ not_found_list' = Append(not_found_list,
                        <<name, prop_id_trimmed(feature)>>)
      ]_vars

\* C6 witness: a finished run in which one feature was accepted at exactly 0.4
\* and another was rejected with a row of positive score below 0.4 left unused
ThresholdBoundaryWitness ==
    /\ pc = "done"
    /\ \E e \in LogIdx : assign_log[e].tier = 3 /\ assign_log[e].score = 4000
    /\ \E i \in FeatIdx :
           /\ HasId(features[i + 1]) /\ ~Assigned(i)
           /\ BestUnused(prop_name_str(features[i + 1]), used_csv_indices) > 0
           /\ BestUnused(prop_name_str(features[i + 1]), used_csv_indices) < 4000
    /\ Len(not_found_list) = 1

\* C7: once the features are loaded they differ from the input in the source
\* of matched features alone: an unassigned feature is the input feature, an
\* assigned one is the input feature but for its source, which is the link of
\* its row; the written document is the feature list.
OnlySourceChanges ==
    Started =>
        /\ Len(features) = Len(source_geojson)
        /\ \A i \in FeatIdx :
              IF Assigned(i)
              THEN /\ WithoutSource(features[i + 1]) = WithoutSource(source_geojson[i + 1])
                   /\ SourceOf(features[i + 1]) = JStr(all_rows[RowOf(i) + 1][3])
              ELSE features[i + 1] = source_geojson[i + 1]
        /\ pc = "done" => output_geojson = features

\* C7 witness: a finished run in which a feature with a source and another
\* property was matched and its source overwritten, and an unmatched feature
\* kept the source it had
OnlySourceChangesWitness ==
    /\ pc = "done"
    /\ \E i \in FeatIdx :
           /\ Assigned(i)
           /\ "source" \in DOMAIN source_geojson[i + 1].properties.val
           /\ SourceOf(features[i + 1]) # SourceOf(source_geojson[i + 1])
    /\ \E i \in FeatIdx :
           /\ ~Assigned(i)
           /\ HasProps(features[i + 1])
           /\ "source" \in DOMAIN features[i + 1].properties.val
           /\ features[i + 1] = source_geojson[i + 1]

\* C8: the score is symmetric: once fuzzy_match has been called on (a, b) and
\* on (b, a), the two results are the same number.
ScoreSymmetric ==
    (score_ab # NoScore /\ score_ba # NoScore) => score_ab = score_ba

\* C8 witness: both calls made on two different non-empty strings of different
\* lengths and different case whose score is strictly between 0 and 1
ScoreSymmetricWitness ==
    /\ score_ab # NoScore /\ score_ba # NoScore
    /\ Len(arg_a) > 0 /\ Len(arg_b) > Len(arg_a)
    /\ Lower(arg_a) # arg_a
    /\ score_ab > 0 /\ score_ab < 10000

\* C9: when the fuzzy tier examines a feature, a row is assigned exactly when
\* the best score over the unused rows reaches 0.4, and the row assigned is
\* unused, has that best score against the feature name, and no unused row of
\* smaller index has it.
FuzzySelectsFirstBest ==
    [][Tier3Acts =>
        LET name == prop_name_str(features[feat_idx + 1])
            best == BestUnused(name, used_csv_indices)
            new == used_csv_indices' \ used_csv_indices
        IN /\ (new # {}) = (best >= MinScore)
           /\ \A r \in new :
                 /\ new = {r}
                 /\ r \in RowIdx \ used_csv_indices
                 /\ fuzzy_match(name, all_rows[r + 1][1]) = best
                 /\ \A j \in RowIdx \ used_csv_indices :
                        j < r => fuzzy_match(name, all_rows[j + 1][1]) < best
                 /\ assign_log' = Append(assign_log,
                        [feat |-> feat_idx, row |-> r, tier |-> 3, score |-> best])
      ]_vars

\* C9 witness: the fuzzy tier assigned row r while a later row with the same
\* score against the feature name was, and stayed, unused
FuzzySelectsFirstBestWitness ==
    /\ pc = "done"
    /\ \E e \in LogIdx :
           /\ assign_log[e].tier = 3
           /\ \E j \in RowIdx \ used_csv_indices :
                  /\ j > assign_log[e].row
                  /\ fuzzy_match(prop_name_str(features[assign_log[e].feat + 1]),
                                 all_rows[j + 1][1]) = assign_log[e].score

\* C10: when the partial tier examines a feature, a row is assigned exactly
\* when some unused row's id is a substring of the feature's trimmed id, and
\* the row assigned is the one of smallest index among them.
PartialSelectsFirst ==
    [][Tier2Acts =>
        LET prop_id == prop_id_trimmed(features[feat_idx + 1])
            cand == PartialCandidates(prop_id, used_csv_indices)
            new == used_csv_indices' \ used_csv_indices
        IN /\ (new # {}) = (cand # {})
           /\ \A r \in new :
                 /\ new = {r}
                 /\ r \in cand
                 /\ \A j \in cand : r <= j
                 /\ assign_log' = Append(assign_log,
                        [feat |-> feat_idx, row |-> r, tier |-> 2, score |-> NoScore])
      ]_vars

\* C10 witness: the partial tier assigned row r while a later row with a longer
\* id, also a substring of the feature id, was, and stayed, unused
PartialSelectsFirstWitness ==
    /\ pc = "done"
    /\ \E e \in LogIdx :
           /\ assign_log[e].tier = 2
           /\ \E j \in RowIdx \ used_csv_indices :
                  /\ j > assign_log[e].row
                  /\ Len(all_rows[j + 1][2]) > Len(all_rows[assign_log[e].row + 1][2])
                  /\ IsSubstring(all_rows[j + 1][2],
                                 prop_id_trimmed(features[assign_log[e].feat + 1]))

\* the entry a step appends to assign_log, when it appends one
NewEntry == assign_log'[Len(assign_log')]
Assigns == Len(assign_log') = Len(assign_log) + 1

\* an unmatched feature whose trimmed id is a key of id_to_idx with its first
\* row still unused
ExactStillOpen(i) ==
    /\ HasId(features[i + 1])
    /\ i \notin matched_feature_indices
    /\ prop_id_trimmed(features[i + 1]) \in DOMAIN id_to_idx
    /\ id_to_idx[prop_id_trimmed(features[i + 1])] \notin used_csv_indices

\* C11: the cascade is global-phase: an assignment is never of a lower tier
\* than an earlier one (all of tier 1, then all of tier 2, then all of tier 3),
\* and when tier 2 or tier 3 assigns a row no unmatched feature, earlier or
\* later in the list, has an id whose first row is still unused.
GlobalPhaseCascade ==
    [][Assigns =>
        /\ \A e \in LogIdx : assign_log[e].tier <= NewEntry.tier
        /\ NewEntry.tier = (CASE pc = "tier1" -> 1 [] pc = "tier2" -> 2
                              [] pc = "tier3" -> 3 [] OTHER -> 0)
        /\ NewEntry.tier \in {2, 3} => \A i \in FeatIdx : ~ExactStillOpen(i)
      ]_vars

\* C11 witness: a finished run in which a later feature was matched by exact id
\* to a row whose id is a substring of an earlier feature's id, and the earlier
\* feature was given another row by the partial tier afterwards
GlobalPhaseCascadeWitness ==
    /\ pc = "done"
    /\ \E d, e \in LogIdx :
           /\ d < e
           /\ assign_log[d].tier = 1 /\ assign_log[e].tier = 2
           /\ assign_log[e].feat < assign_log[d].feat
           /\ assign_log[d].row < assign_log[e].row
           /\ IsSubstring(all_rows[assign_log[d].row + 1][2],
                          prop_id_trimmed(features[assign_log[e].feat + 1]))

\* C12: the used rows and the matched features start empty and only grow; a
\* matched feature is not touched again (no further row, its source kept); each
\* feature is assigned at most one row and there are as many used rows as
\* matched features at every step.
MatchedNeverRevisited ==
    /\ (used_csv_indices = {} /\ matched_feature_indices = {})
    /\ [][/\ pc # "open_geojson" =>
                /\ used_csv_indices \subseteq used_csv_indices'
                /\ matched_feature_indices \subseteq matched_feature_indices'
          /\ pc = "open_geojson" =>
                used_csv_indices' = {} /\ matched_feature_indices' = {}
          /\ \A i \in matched_feature_indices :
                /\ features'[i + 1] = features[i + 1]
                /\ Assigns => NewEntry.feat # i
         ]_vars
    /\ [](/\ Cardinality(used_csv_indices) = Cardinality(matched_feature_indices)
          /\ matched_feature_indices = {assign_log[e].feat : e \in LogIdx}
          /\ \A d, e \in LogIdx :
                 d # e => assign_log[d].feat # assign_log[e].feat)

\* C12 witness: a finished run in which a feature matched by exact id was left
\* alone by the later tiers although an unused row's id is a substring of its
\* id, while another feature went through all three tiers unmatched
MatchedNeverRevisitedWitness ==
    /\ pc = "done"
    /\ Cardinality(matched_feature_indices) = 1
    /\ Cardinality(used_csv_indices) = 1
    /\ Len(not_found_list) = 1
    /\ \E i \in FeatIdx :
           /\ AssignedBy(i, 1)
           /\ SourceOf(features[i + 1]) = JStr(all_rows[RowOf(i) + 1][3])
           /\ PartialCandidates(prop_id_trimmed(features[i + 1]),
                                used_csv_indices) # {}

====
